---- MODULE Spec2Model ----
(***************************************************************************)
(* Farm hand-off of tk-config-publish_api_webinar.                         *)
(*                                                                         *)
(*   hooks/tk-multi-publish2/farm_wrapper.py     FarmWrapper (publish      *)
(*       plugin wrapper that skips farm tasks inside the DCC)              *)
(*   hooks/tk-multi-publish2/farm_submission.py  FarmSubmission            *)
(*       (post_publish hook writing the tree and dcc_state.txt)            *)
(*   render_node.py                              the farm worker script    *)
(*                                                                         *)
(* The code is Python 2: text is either a byte string (str) or a unicode   *)
(* string, and both are modelled as [kind, chars].                         *)
(***************************************************************************)
EXTENDS Integers, Sequences, FiniteSets, TLC

\* ---------------------------------------------------------------- bounds
\* Most items in a publish tree.
MaxItems == 2
\* Most tasks in a publish tree (over all its items).
MaxTasks == 3
\* Most characters in the scene name Maya reports.
MaxPathLen == 2
\* Most publish cycles of one interactive session.
MaxCycles == 2

\* ---------------------------------------------------------- Python values
PyStr(bytes) == [kind |-> "str", chars |-> bytes]
PyUnicode(cps) == [kind |-> "unicode", chars |-> cps]
PyInt(n) == [kind |-> "int", chars |-> <<n>>]
PyNone == [kind |-> "none", chars |-> <<>>]

\* Python truth value of a value: None, 0 and empty strings are false.
Truthy(v) ==
    CASE v.kind = "none" -> FALSE
      [] v.kind = "int" -> v.chars[1] # 0
      [] OTHER -> Len(v.chars) > 0

IsAscii(s) == \A i \in 1..Len(s) : s[i] < 128

\* unicode.encode("utf-8"), for code points below 0x800.
RECURSIVE EncodeUtf8(_)
EncodeUtf8(cps) ==
    IF cps = <<>> THEN <<>>
    ELSE (IF Head(cps) < 128
          THEN <<Head(cps)>>
          ELSE <<192 + (Head(cps) \div 64), 128 + (Head(cps) % 64)>>)
         \o EncodeUtf8(Tail(cps))

\* Is this byte string well-formed UTF-8 (one- and two-byte sequences)?
RECURSIVE IsUtf8(_)
IsUtf8(bytes) ==
    IF bytes = <<>> THEN TRUE
    ELSE IF Head(bytes) < 128 THEN IsUtf8(Tail(bytes))
    ELSE /\ Head(bytes) >= 192
         /\ Head(bytes) < 224
         /\ Len(bytes) >= 2
         /\ bytes[2] >= 128
         /\ bytes[2] < 192
         /\ IsUtf8(Tail(Tail(bytes)))

\* str.decode("utf-8") of a well-formed byte string.
RECURSIVE DecodeUtf8(_)
DecodeUtf8(bytes) ==
    IF bytes = <<>> THEN <<>>
    ELSE IF Head(bytes) < 128
    THEN <<Head(bytes)>> \o DecodeUtf8(Tail(bytes))
    ELSE <<(Head(bytes) - 192) * 64 + (bytes[2] - 128)>>
         \o DecodeUtf8(Tail(Tail(bytes)))

\* Python 2 "==" between two values: a str and a unicode compare equal only
\* when the str is ASCII and holds the same characters.
PyEq(a, b) ==
    IF a.kind = b.kind THEN a.chars = b.chars
    ELSE IF {a.kind, b.kind} = {"str", "unicode"}
    THEN IsAscii(a.chars) /\ IsAscii(b.chars) /\ a.chars = b.chars
    ELSE FALSE

\* ------------------------------------------------------------- constants
\* FarmWrapper._SUBMIT_TO_FARM / FarmSubmission._SUBMIT_TO_FARM.
SUBMIT_TO_FARM == "Submit to Farm"

submission_folder == "/var/tmp/webinar"
TREE_FILE == "publish2_tree.txt"
STATE_FILE == "dcc_state.txt"
FileNames == {TREE_FILE, STATE_FILE}

\* The three environment variables bootstrap_toolkit reads.
CredentialVars == {"SHOTGUN_SCRIPT_NAME", "SHOTGUN_SCRIPT_KEY", "SHOTGUN_HOST"}

\* Hosts: Maya with its UI, Maya in batch mode (mayapy, the farm), and a
\* host application whose module "maya.cmds" cannot be imported.
Hosts == {"maya_gui", "maya_batch", "other"}
IsMaya(h) == h \in {"maya_gui", "maya_batch"}

\* "tk-maya", "tk-nuke", "tk-multi-publish2" as byte strings.
TK_MAYA == PyStr(<<116, 107, 45, 109, 97, 121, 97>>)
TK_NUKE == PyStr(<<116, 107, 45, 110, 117, 107, 101>>)
TK_MULTI_PUBLISH2 ==
    PyStr(<<116, 107, 45, 109, 117, 108, 116, 105, 45, 112, 117, 98, 108,
            105, 115, 104, 50>>)
EngineNameOf(h) == IF IsMaya(h) THEN TK_MAYA ELSE TK_NUKE

\* Scene names: unicode strings over 'a' (U+0061) and e-acute (U+00E9); the
\* empty name is what Maya reports for a scene that was never saved.
PathChars == {97, 233}
SessionNames ==
    UNION {[1..n -> PathChars] : n \in 0..MaxPathLen}

\* ------------------------------------------------------------ publish tree
\* A task is its settings: a function from setting names to values. A task
\* of the FarmWrapper plugin always carries "Submit to Farm" (the plugin's
\* settings property declares it); a task of any other plugin does not.
NoSettings == [k \in {} |-> TRUE]
FarmSetting(b) == [k \in {SUBMIT_TO_FARM} |-> b]
TaskSettings == {NoSettings} \cup {FarmSetting(b) : b \in BOOLEAN}

\* An item is the sequence of its tasks; a tree is the sequence of its items.
ItemsUpTo(n) == UNION {[1..k -> TaskSettings] : k \in 0..n}
RECURSIVE TaskCount(_)
TaskCount(tr) ==
    IF tr = <<>> THEN 0 ELSE Len(Head(tr)) + TaskCount(Tail(tr))
\* Trees of at most nItems items and nTasks tasks.
RECURSIVE TreesWithin(_, _)
TreesWithin(nItems, nTasks) ==
    IF nItems = 0 THEN {<<>>}
    ELSE {<<>>} \cup
         UNION {{<<it>> \o rest : rest \in TreesWithin(nItems - 1, nTasks - Len(it))} :
                    it \in ItemsUpTo(nTasks)}
Trees == TreesWithin(MaxItems, MaxTasks)

\* Tasks in tree order: items in order, then the tasks of each item.
RECURSIVE TasksFrom(_, _)
TasksFrom(tr, i) ==
    IF i > Len(tr) THEN <<>>
    ELSE [j \in 1..Len(tr[i]) |-> <<i, j>>] \o TasksFrom(tr, i + 1)
TaskSeq(tr) == TasksFrom(tr, 1)
TaskIds(tr) == {TaskSeq(tr)[k] : k \in 1..Len(TaskSeq(tr))}
SettingsOf(tr, t) == tr[t[1]][t[2]]

\* Item local properties (item.local_properties): a function from property
\* names to values. FarmWrapper.publish stores "publish_user" there.
NoProps == [k \in {} |-> ""]
CurrentUser == "artist"

\* ------------------------------------------------------- farm_wrapper.py
\* Variant of wrapper_is_on_local_computer without the batch-mode test.
wrapper_is_on_local_computer_NoBatch(h) ==
    IF IsMaya(h) THEN "True" ELSE "NotImplementedError"

\* _is_on_local_computer() of farm_wrapper.py: "not batch" under Maya, and
\* NotImplementedError when maya.cmds cannot be imported.
wrapper_is_on_local_computer(h) ==
    IF IsMaya(h)
    THEN (IF h = "maya_batch" THEN "False" ELSE "True")
    ELSE "NotImplementedError"

\* FarmWrapper._is_submitting_to_farm(settings): the "and" evaluates the
\* host test only when the setting's value is true.
is_submitting_to_farm(settings, h) ==
    IF SUBMIT_TO_FARM \notin DOMAIN settings THEN "KeyError"
    ELSE IF ~settings[SUBMIT_TO_FARM] THEN "False"
    ELSE wrapper_is_on_local_computer(h)

\* FarmWrapper.publish(settings, item): what the call does with the task.
\*   "skip"  the task goes to the farm: publish_user is stored, nothing else
\*   "base"  super().publish runs the real publish action
\*   "raise" the exception of _is_submitting_to_farm propagates
FarmWrapper_publish(settings, h) ==
    LET r == is_submitting_to_farm(settings, h)
    IN  CASE r = "True" -> "skip"
          [] r = "False" -> "base"
          [] OTHER -> "raise"

\* FarmWrapper.finalize(settings, item).
FarmWrapper_finalize(settings, h) ==
    LET r == is_submitting_to_farm(settings, h)
    IN  CASE r = "True" -> "skip"
          [] r = "False" -> "base"
          [] OTHER -> "raise"

\* task.publish() as the publish manager dispatches it: a task of the
\* FarmWrapper plugin goes through FarmWrapper.publish; a task of another
\* plugin (no "Submit to Farm" setting) runs its own publish action.
TaskPublish(settings, h) ==
    IF SUBMIT_TO_FARM \in DOMAIN settings
    THEN FarmWrapper_publish(settings, h)
    ELSE "base"

TaskFinalize(settings, h) ==
    IF SUBMIT_TO_FARM \in DOMAIN settings
    THEN FarmWrapper_finalize(settings, h)
    ELSE "base"

\* ---------------------------------------------------- farm_submission.py
\* Variant of submission_is_on_local_computer that takes batch-mode Maya
\* for the local computer.
submission_is_on_local_computer_BatchIsLocal(h) ==
    IF ~IsMaya(h) THEN "NotImplementedError" ELSE "True"

\* _is_on_local_computer() of farm_submission.py.
submission_is_on_local_computer(h) ==
    IF IsMaya(h)
    THEN (IF h = "maya_batch" THEN "False" ELSE "True")
    ELSE "NotImplementedError"

\* Variant of has_render_submissions that tests only the presence of the
\* setting, not its value.
has_render_submissions_AnySetting(tr) ==
    \E k \in 1..Len(TaskSeq(tr)) :
        SUBMIT_TO_FARM \in DOMAIN SettingsOf(tr, TaskSeq(tr)[k])

\* Variant of has_render_submissions that looks at the first item only.
has_render_submissions_FirstItemOnly(tr) ==
    /\ tr # <<>>
    /\ \E j \in 1..Len(tr[1]) :
        SUBMIT_TO_FARM \in DOMAIN tr[1][j] /\ tr[1][j][SUBMIT_TO_FARM]

\* FarmSubmission._has_render_submissions(tree): the loops return True at
\* the first task whose setting exists and has a true value.
has_render_submissions(tr) ==
    \E k \in 1..Len(TaskSeq(tr)) :
        LET s == SettingsOf(tr, TaskSeq(tr)[k])
        IN  SUBMIT_TO_FARM \in DOMAIN s /\ s[SUBMIT_TO_FARM]

\* _get_session_path(): cmds.file(query=True, sn=True), encoded to UTF-8
\* when Maya hands back a unicode string (it always does).
get_session_path(h, name) ==
    IF IsMaya(h)
    THEN (LET path == PyUnicode(name)
          IN  IF path.kind = "unicode"
              THEN PyStr(EncodeUtf8(path.chars))
              ELSE path)
    ELSE [kind |-> "NotImplementedError", chars |-> <<>>]

\* engine.context.to_dict() / sgtk.Context.from_dict(): a context is its
\* project, entity and task (each an entity id or None); the dictionary
\* holds them under their names.
Contexts ==
    {[project |-> p, entity |-> e, task |-> t] :
        p \in {PyNone, PyInt(1)}, e \in {PyNone, PyInt(2)}, t \in {PyNone, PyInt(3)}}
RealContexts ==
    {c \in Contexts :
        /\ (c.task # PyNone => c.entity # PyNone)
        /\ (c.entity # PyNone => c.project # PyNone)}
context_to_dict(c) ==
    {<<"project", c.project>>, <<"entity", c.entity>>, <<"task", c.task>>}
DictGet(d, key) == (CHOOSE p \in d : p[1] = key)[2]
context_from_dict(d) ==
    [project |-> DictGet(d, "project"),
     entity |-> DictGet(d, "entity"),
     task |-> DictGet(d, "task")]

\* The dcc_state dictionary post_publish builds (lines 47-55).
build_dcc_state(h, name, cfg, c, appName) ==
    [session_path |-> get_session_path(h, name),
     toolkit |->
        [pipeline_configuration_id |-> cfg,
         context |-> context_to_dict(c),
         engine_instance_name |-> EngineNameOf(h),
         app_instance_name |-> appName]]

\* ------------------------------------------------ yaml (tank_vendor.yaml)
\* A YAML scalar node is a tag and its text. The Python 2 safe representer
\* writes a str as text (its ASCII or UTF-8 decoding, else as binary) and
\* the safe constructor returns a str for ASCII text and unicode otherwise.
yaml_represent(v) ==
    CASE v.kind = "str" ->
            (IF IsAscii(v.chars) THEN [tag |-> "str", text |-> v.chars]
             ELSE IF IsUtf8(v.chars)
             THEN [tag |-> "str", text |-> DecodeUtf8(v.chars)]
             ELSE [tag |-> "binary", text |-> v.chars])
      [] v.kind = "unicode" -> [tag |-> "str", text |-> v.chars]
      [] v.kind = "int" -> [tag |-> "int", text |-> v.chars]
      [] OTHER -> [tag |-> "null", text |-> <<>>]

yaml_construct(n) ==
    CASE n.tag = "str" ->
            (IF IsAscii(n.text) THEN PyStr(n.text) ELSE PyUnicode(n.text))
      [] n.tag = "binary" -> PyStr(n.text)
      [] n.tag = "int" -> PyInt(n.text[1])
      [] OTHER -> PyNone

\* yaml.safe_dump(dcc_state, f): the document written to dcc_state.txt.
safe_dump(d) ==
    [session_path |-> yaml_represent(d.session_path),
     toolkit |->
        [pipeline_configuration_id |->
            yaml_represent(d.toolkit.pipeline_configuration_id),
         context |->
            {<<p[1], yaml_represent(p[2])>> : p \in d.toolkit.context},
         engine_instance_name |-> yaml_represent(d.toolkit.engine_instance_name),
         app_instance_name |-> yaml_represent(d.toolkit.app_instance_name)]]

\* yaml.safe_load(f) of such a document.
safe_load(doc) ==
    [session_path |-> yaml_construct(doc.session_path),
     toolkit |->
        [pipeline_configuration_id |->
            yaml_construct(doc.toolkit.pipeline_configuration_id),
         context |->
            {<<p[1], yaml_construct(p[2])>> : p \in doc.toolkit.context},
         engine_instance_name |-> yaml_construct(doc.toolkit.engine_instance_name),
         app_instance_name |-> yaml_construct(doc.toolkit.app_instance_name)]]

\* ------------------------------------- tree.save_file / manager.load
\* The serialized tree: per item its tasks' settings as name/value pairs
\* and its local properties. The whole tree is written, not a selection.
SettingsToPairs(s) == {<<k, s[k]>> : k \in DOMAIN s}
PairsToSettings(ps) ==
    [k \in {p[1] : p \in ps} |-> (CHOOSE p \in ps : p[1] = k)[2]]
\* Variant of tree_save_file that writes only the farm tasks of each item.
tree_save_file_FarmOnly(tr, pr) ==
    [i \in 1..Len(tr) |->
        [tasks |-> SelectSeq([j \in 1..Len(tr[i]) |-> SettingsToPairs(tr[i][j])],
                             LAMBDA ps : <<SUBMIT_TO_FARM, TRUE>> \in ps),
         local_properties |-> SettingsToPairs(pr[i])]]
tree_save_file(tr, pr) ==
    [i \in 1..Len(tr) |->
        [tasks |-> [j \in 1..Len(tr[i]) |-> SettingsToPairs(tr[i][j])],
         local_properties |-> SettingsToPairs(pr[i])]]
manager_load_tree(content) ==
    [i \in 1..Len(content) |->
        [j \in 1..Len(content[i].tasks) |->
            PairsToSettings(content[i].tasks[j])]]
manager_load_props(content) ==
    [i \in 1..Len(content) |-> PairsToSettings(content[i].local_properties)]

\* ---------------------------------------------------------- render_node.py
\* Variant of IsSelected that tests only the presence of the setting.
IsSelected_AnyValue(settings) == SUBMIT_TO_FARM \in DOMAIN settings

\* Variant of generator that yields the selected tasks last to first.
generator_Reversed(tr) ==
    LET g == SelectSeq(TaskSeq(tr),
                       LAMBDA t : SUBMIT_TO_FARM \in DOMAIN SettingsOf(tr, t)
                                  /\ SettingsOf(tr, t)[SUBMIT_TO_FARM] = TRUE)
    IN  [k \in 1..Len(g) |-> g[Len(g) + 1 - k]]

\* publish_items.generator(tree): the tasks, in tree order, whose
\* "Submit to Farm" setting exists and "is True".
IsSelected(settings) ==
    SUBMIT_TO_FARM \in DOMAIN settings /\ settings[SUBMIT_TO_FARM] = TRUE
generator(tr) ==
    SelectSeq(TaskSeq(tr), LAMBDA t : IsSelected(SettingsOf(tr, t)))

\* context.task or context.entity or context.project.
context_entity(c) ==
    IF Truthy(c.task) THEN c.task
    ELSE IF Truthy(c.entity) THEN c.entity
    ELSE c.project

\* Variant of get_parameters that returns the engine name before the app
\* name, the order the dcc_state dictionary lists them in.
get_parameters_EngineFirst(doc, publish_tree_file) ==
    LET dcc_state == safe_load(doc)
        context == context_from_dict(dcc_state.toolkit.context)
    IN  <<dcc_state.session_path,
          dcc_state.toolkit.pipeline_configuration_id,
          context_entity(context),
          dcc_state.toolkit.engine_instance_name,
          dcc_state.toolkit.app_instance_name,
          publish_tree_file>>

\* get_parameters(): the tuple it returns, from the decoded dcc_state and
\* argv[2]. The app name comes before the engine name.
get_parameters(doc, publish_tree_file) ==
    LET dcc_state == safe_load(doc)
        context == context_from_dict(dcc_state.toolkit.context)
    IN  <<dcc_state.session_path,
          dcc_state.toolkit.pipeline_configuration_id,
          context_entity(context),
          dcc_state.toolkit.app_instance_name,
          dcc_state.toolkit.engine_instance_name,
          publish_tree_file>>

\* main() unpacks that tuple by position (lines 153-156).
main_session_path(r) == r[1]
main_configuration_id(r) == r[2]
main_context(r) == r[3]
main_app_name(r) == r[4]
main_engine_name(r) == r[5]
main_publish_tree_file(r) == r[6]

\* ------------------------------------------------------------------ state
VARIABLES
    \* the submitting process (the artist's DCC session)
    host,         \* host application of the submitting process
    tree,         \* the publish tree of the session
    props,        \* local_properties of each item
    sessionName,  \* scene name Maya reports (code points)
    cfgId,        \* engine.sgtk.configuration_id
    ctx,          \* engine.context
    cycle,        \* publish cycles started so far
    lpc,          \* "publish", "post_publish", "finalize", "done", "failed"
    lidx,         \* position of the publish manager in TaskSeq(tree)
    localPub,     \* tasks whose real publish action ran in this process
    localFin,     \* tasks whose real finalize action ran in this process
    lastPost,     \* the last post_publish call: process, result, files written
    \* durable storage under /var/tmp/webinar
    folder,       \* does the submission folder exist
    disk,         \* file name -> <<>> (absent) or <<content>>
    submissions,  \* artifacts written by each completed submission, in order
    \* the worker process (render_node.py)
    wpc,          \* "idle", "Start", the phases, "Done", "Failed"
    whost,        \* host application of the worker
    wstandalone,  \* has maya.standalone.initialize run in the worker
    wenv,         \* credential variables set in the worker's environment
    wparams,      \* the tuple get_parameters returned
    wengine,      \* engine instance name handed to bootstrap_engine
    wapp,         \* app instance name looked up in engine.apps
    wscene,       \* scene path handed to maya.cmds.file(open=True)
    wtree,        \* tree loaded by manager.load
    wprops,       \* local properties loaded with it
    wpass,        \* "none", "publish", "finalize": the manager pass running
    wgen,         \* tasks the running generator has yet to yield
    wapplied,     \* tasks whose real publish action completed in the worker
    wfinalized,   \* tasks whose real finalize action completed in the worker
    wfailedIn     \* step whose exception ended the run ("none" if none)

vars ==
    <<host, tree, props, sessionName, cfgId, ctx, cycle, lpc, lidx, localPub,
      localFin, lastPost, folder, disk, submissions, wpc, whost,
      wstandalone, wenv,
      wparams, wengine, wapp, wscene, wtree, wprops, wpass, wgen, wapplied,
      wfinalized, wfailedIn>>

localVars ==
    <<host, tree, props, sessionName, cfgId, ctx, cycle, lpc, lidx, localPub,
      localFin>>
storeVars == <<folder, disk, submissions>>
workerVars ==
    <<wpc, whost, wstandalone, wenv, wparams, wengine, wapp, wscene, wtree,
      wprops, wpass, wgen, wapplied, wfinalized, wfailedIn>>

NoPost == [proc |-> "none", result |-> "none", written |-> <<>>]

\* A worker that has not been launched, and empty storage.
InitRest ==
    /\ props = [i \in 1..Len(tree) |-> NoProps]
    /\ cycle = 1
    /\ lpc = IF TaskSeq(tree) = <<>> THEN "post_publish" ELSE "publish"
    /\ lidx = 1
    /\ localPub = <<>>
    /\ localFin = <<>>
    /\ lastPost = NoPost
    /\ folder = FALSE
    /\ disk = [f \in FileNames |-> <<>>]
    /\ submissions = <<>>
    /\ wpc = "idle"
    /\ whost = "maya_batch"
    /\ wstandalone = FALSE
    /\ wenv = {}
    /\ wparams = <<>>
    /\ wengine = PyNone
    /\ wapp = PyNone
    /\ wscene = PyNone
    /\ wtree = <<>>
    /\ wprops = <<>>
    /\ wpass = "none"
    /\ wgen = <<>>
    /\ wapplied = <<>>
    /\ wfinalized = <<>>
    /\ wfailedIn = "none"

\* Every publish tree within the bounds, in every host, with a saved or a
\* never-saved scene.
Init ==
    /\ tree \in Trees
    /\ host \in Hosts
    /\ sessionName \in {s \in SessionNames : Len(s) <= 1 /\ IsAscii(s)}
    /\ cfgId = PyInt(42)
    /\ ctx = [project |-> PyInt(1), entity |-> PyInt(2), task |-> PyInt(3)]
    /\ InitRest

\* ------------------------------------------------ post_publish (the hook)
\* FarmSubmission._submit_to_farm(dcc_state, tree). fault names the call
\* that raises, if any: "save_file" (tree.save_file), "safe_dump"
\* (yaml.safe_dump, after open(..., "wt") created the file) or "none".
submit_to_farm(proc, dcc_state, tr, pr, fault) ==
    /\ folder' = TRUE
    /\ CASE fault = "save_file" ->
              /\ disk' = disk
              /\ submissions' = submissions
              /\ lastPost' = [proc |-> proc, result |-> "raise", written |-> <<>>]
         [] fault = "safe_dump" ->
              /\ disk' = [disk EXCEPT ![TREE_FILE] = <<tree_save_file(tr, pr)>>,
                                      ![STATE_FILE] = << <<>> >>]
              /\ submissions' = submissions
              /\ lastPost' = [proc |-> proc, result |-> "raise",
                              written |-> <<TREE_FILE, STATE_FILE>>]
         [] OTHER ->
              /\ disk' = [disk EXCEPT ![TREE_FILE] = <<tree_save_file(tr, pr)>>,
                                      ![STATE_FILE] = << <<safe_dump(dcc_state)>> >>]
              /\ submissions' =
                    Append(submissions,
                           [tree |-> tree_save_file(tr, pr),
                            state |-> <<safe_dump(dcc_state)>>])
              /\ lastPost' = [proc |-> proc, result |-> "submitted",
                              written |-> <<TREE_FILE, STATE_FILE>>]

\* FarmSubmission.post_publish(tree), run in process proc under host h.
\* Results: "raise" (an exception leaves the hook), "return" (not on the
\* local computer), "noop" (no job was submitted), "submitted".
post_publish(proc, h, tr, pr, name, cfg, c, fault) ==
    LET loc == submission_is_on_local_computer(h)
    IN  IF loc = "NotImplementedError"
        THEN /\ lastPost' = [proc |-> proc, result |-> "raise", written |-> <<>>]
             /\ UNCHANGED storeVars
        ELSE IF loc = "False"
        THEN /\ lastPost' = [proc |-> proc, result |-> "return", written |-> <<>>]
             /\ UNCHANGED storeVars
        ELSE IF ~has_render_submissions(tr)
        THEN /\ lastPost' = [proc |-> proc, result |-> "noop", written |-> <<>>]
             /\ UNCHANGED storeVars
        ELSE submit_to_farm(proc,
                            build_dcc_state(h, name, cfg, c, TK_MULTI_PUBLISH2),
                            tr, pr, fault)

Faults == {"none", "save_file", "safe_dump"}

\* --------------------------------------- the interactive publish cycle
\* The publish manager of the submitting process: publish every task in
\* tree order, fire post_publish, finalize every task in tree order.
AfterLast(phase) ==
    IF phase = "publish" THEN "post_publish" ELSE "done"

\* task.publish() of the task at lidx. ok: does the real publish action
\* succeed when it runs.
LocalPublish ==
    /\ lpc = "publish"
    /\ lidx <= Len(TaskSeq(tree))
    /\ \E ok \in BOOLEAN :
        LET t == TaskSeq(tree)[lidx]
            what == TaskPublish(SettingsOf(tree, t), host)
        IN  /\ props' = IF what = "skip"
                        THEN [props EXCEPT ![t[1]] =
                                [k \in {"publish_user"} |-> CurrentUser]]
                        ELSE props
            /\ localPub' = IF what = "base" /\ ok
                           THEN Append(localPub, t) ELSE localPub
            /\ IF what = "raise" \/ (what = "base" /\ ~ok)
               THEN lpc' = "failed" /\ lidx' = lidx
               ELSE IF lidx = Len(TaskSeq(tree))
               THEN lpc' = AfterLast("publish") /\ lidx' = 1
               ELSE lpc' = lpc /\ lidx' = lidx + 1
    /\ UNCHANGED <<host, tree, sessionName, cfgId, ctx, cycle, localFin,
                   lastPost>>
    /\ UNCHANGED storeVars
    /\ UNCHANGED workerVars

\* The post_publish hook of the submitting process.
LocalPostPublish ==
    /\ lpc = "post_publish"
    /\ \E fault \in Faults :
        post_publish("local", host, tree, props, sessionName, cfgId, ctx, fault)
    /\ lpc' = IF lastPost'.result = "raise" THEN "failed"
              ELSE IF TaskSeq(tree) = <<>> THEN "done"
              ELSE "finalize"
    /\ lidx' = 1
    /\ UNCHANGED <<host, tree, props, sessionName, cfgId, ctx, cycle,
                   localPub, localFin>>
    /\ UNCHANGED workerVars

\* task.finalize() of the task at lidx.
LocalFinalize ==
    /\ lpc = "finalize"
    /\ lidx <= Len(TaskSeq(tree))
    /\ \E ok \in BOOLEAN :
        LET t == TaskSeq(tree)[lidx]
            what == TaskFinalize(SettingsOf(tree, t), host)
        IN  /\ localFin' = IF what = "base" /\ ok
                           THEN Append(localFin, t) ELSE localFin
            /\ IF what = "raise" \/ (what = "base" /\ ~ok)
               THEN lpc' = "failed" /\ lidx' = lidx
               ELSE IF lidx = Len(TaskSeq(tree))
               THEN lpc' = AfterLast("finalize") /\ lidx' = 1
               ELSE lpc' = lpc /\ lidx' = lidx + 1
    /\ UNCHANGED <<host, tree, props, sessionName, cfgId, ctx, cycle,
                   localPub, lastPost>>
    /\ UNCHANGED storeVars
    /\ UNCHANGED workerVars

\* ------------------------------------------------- the worker: main()
\* The engines and apps the pipeline configuration defines.
EngineNames == {TK_MAYA, TK_NUKE}
AppNames == {TK_MULTI_PUBLISH2}
KnownName(names, v) == \E n \in names : PyEq(v, n)

WorkerFail(step) ==
    /\ wpc' = "Failed"
    /\ wfailedIn' = step

\* Text of a path value, as Maya would report it back.
TextOf(v) == IF v.kind = "str" /\ IsUtf8(v.chars) THEN DecodeUtf8(v.chars) ELSE v.chars

\* Environments of the worker: every credential set, or one of them missing.
WorkerEnvironments ==
    {CredentialVars} \cup {CredentialVars \ {v} : v \in CredentialVars}

\* The farm starts render_node.py with the two files as arguments, in some
\* interpreter (mayapy or not) and some environment. Importing the module
\* runs lines 23-31: where maya.standalone can be imported,
\* maya.standalone.initialize is called, before main().
WorkerLaunch ==
    /\ wpc = "idle"
    /\ lpc \in {"done", "failed"}
    /\ whost' \in {"maya_batch", "other"}
    /\ wstandalone' = IsMaya(whost')
    /\ wenv' \in WorkerEnvironments
    /\ wpc' = "Start"
    /\ UNCHANGED <<wparams, wengine, wapp, wscene, wtree, wprops, wpass, wgen,
                   wapplied, wfinalized, wfailedIn>>
    /\ UNCHANGED localVars
    /\ UNCHANGED lastPost
    /\ UNCHANGED storeVars

\* main(): "Retrieving render settings". open() raises when dcc_state.txt
\* is missing; an empty file loads as None, and indexing it raises.
WorkerGetParameters ==
    /\ wpc = "Start"
    /\ IF disk[STATE_FILE] = <<>> \/ disk[STATE_FILE] = << <<>> >>
       THEN /\ WorkerFail("get_parameters")
            /\ wparams' = wparams
       ELSE /\ wparams' = get_parameters(disk[STATE_FILE][1][1], TREE_FILE)
            /\ wpc' = "ParametersLoaded"
            /\ wfailedIn' = wfailedIn
    /\ UNCHANGED <<whost, wstandalone, wenv, wengine, wapp, wscene, wtree, wprops, wpass,
                   wgen, wapplied, wfinalized>>
    /\ UNCHANGED localVars
    /\ UNCHANGED lastPost
    /\ UNCHANGED storeVars

\* Variant of WorkerBootstrapToolkit that carries on with default
\* credentials when an environment variable is missing.
WorkerBootstrapToolkit_DefaultCredentials ==
    /\ wpc = "ParametersLoaded"
    /\ \E ok \in BOOLEAN :
        /\ wengine' = main_engine_name(wparams)
        /\ IF ok /\ KnownName(EngineNames, main_engine_name(wparams))
           THEN wpc' = "EngineStarted" /\ wfailedIn' = wfailedIn
           ELSE WorkerFail("bootstrap_toolkit")
    /\ UNCHANGED <<whost, wstandalone, wenv, wparams, wapp, wscene, wtree, wprops, wpass,
                   wgen, wapplied, wfinalized>>
    /\ UNCHANGED localVars
    /\ UNCHANGED lastPost
    /\ UNCHANGED storeVars

\* main(): "Starting engine": bootstrap_toolkit(configuration_id, context,
\* engine_name). os.environ[...] raises KeyError for a missing variable;
\* bootstrap_engine raises for an engine the configuration does not define,
\* and may fail for reasons of its own (ok).
WorkerBootstrapToolkit ==
    /\ wpc = "ParametersLoaded"
    /\ \E ok \in BOOLEAN :
        IF ~(CredentialVars \subseteq wenv)
        THEN /\ WorkerFail("bootstrap_toolkit")
             /\ wengine' = wengine
        ELSE /\ wengine' = main_engine_name(wparams)
             /\ IF ok /\ KnownName(EngineNames, main_engine_name(wparams))
                THEN wpc' = "EngineStarted" /\ wfailedIn' = wfailedIn
                ELSE WorkerFail("bootstrap_toolkit")
    /\ UNCHANGED <<whost, wstandalone, wenv, wparams, wapp, wscene, wtree, wprops, wpass,
                   wgen, wapplied, wfinalized>>
    /\ UNCHANGED localVars
    /\ UNCHANGED lastPost
    /\ UNCHANGED storeVars

\* Variant of WorkerLoadScene in which load_scene falls through without
\* raising when maya.cmds cannot be imported.
WorkerLoadScene_SilentSkip ==
    /\ wpc = "EngineStarted"
    /\ \E ok \in BOOLEAN :
        IF ~IsMaya(whost)
        THEN /\ wpc' = "SceneLoaded"
             /\ wfailedIn' = wfailedIn
             /\ wscene' = wscene
        ELSE /\ wscene' = main_session_path(wparams)
             /\ IF ok /\ Truthy(main_session_path(wparams))
                THEN wpc' = "SceneLoaded" /\ wfailedIn' = wfailedIn
                ELSE WorkerFail("load_scene")
    /\ UNCHANGED <<whost, wstandalone, wenv, wparams, wengine, wapp, wtree, wprops, wpass,
                   wgen, wapplied, wfinalized>>
    /\ UNCHANGED localVars
    /\ UNCHANGED lastPost
    /\ UNCHANGED storeVars

\* main(): "Loading scene": load_scene(session_path, engine). Without
\* maya.cmds it raises NotImplementedError; maya.cmds.file raises when the
\* scene cannot be opened (always so for an empty path).
WorkerLoadScene ==
    /\ wpc = "EngineStarted"
    /\ \E ok \in BOOLEAN :
        IF ~IsMaya(whost)
        THEN /\ WorkerFail("load_scene")
             /\ wscene' = wscene
        ELSE /\ wscene' = main_session_path(wparams)
             /\ IF ok /\ Truthy(main_session_path(wparams))
                THEN wpc' = "SceneLoaded" /\ wfailedIn' = wfailedIn
                ELSE WorkerFail("load_scene")
    /\ UNCHANGED <<whost, wstandalone, wenv, wparams, wengine, wapp, wtree, wprops, wpass,
                   wgen, wapplied, wfinalized>>
    /\ UNCHANGED localVars
    /\ UNCHANGED lastPost
    /\ UNCHANGED storeVars

\* publish_items, lines 124-140: look the app up, create the manager, load
\* the tree and hand manager.publish a fresh generator.
WorkerLoadTree ==
    /\ wpc = "SceneLoaded"
    /\ wapp' = main_app_name(wparams)
    /\ IF \/ ~KnownName(AppNames, main_app_name(wparams))
          \/ disk[main_publish_tree_file(wparams)] = <<>>
       THEN /\ WorkerFail("publish_items")
            /\ UNCHANGED <<wtree, wprops, wpass, wgen>>
       ELSE /\ wtree' = manager_load_tree(disk[main_publish_tree_file(wparams)][1])
            /\ wprops' = manager_load_props(disk[main_publish_tree_file(wparams)][1])
            /\ wpass' = "publish"
            /\ wgen' = generator(wtree')
            /\ wpc' = "Publishing"
            /\ wfailedIn' = wfailedIn
    /\ UNCHANGED <<whost, wstandalone, wenv, wparams, wengine, wscene, wapplied, wfinalized>>
    /\ UNCHANGED localVars
    /\ UNCHANGED lastPost
    /\ UNCHANGED storeVars

\* Variant of WorkerApply that finalizes each task right after its publish,
\* in one traversal.
WorkerApply_Interleaved ==
    /\ wpc = "Publishing"
    /\ wpass = "publish"
    /\ wgen # <<>>
    /\ \E ok \in BOOLEAN :
        LET t == Head(wgen)
            what == TaskPublish(SettingsOf(wtree, t), whost)
        IN  /\ wprops' = wprops
            /\ wapplied' = IF what = "base" /\ ok
                           THEN Append(wapplied, t) ELSE wapplied
            /\ wfinalized' = IF what = "base" /\ ok
                             THEN Append(wfinalized, t) ELSE wfinalized
            /\ IF what = "raise" \/ (what = "base" /\ ~ok)
               THEN /\ WorkerFail("publish_items")
                    /\ wgen' = wgen
               ELSE /\ wgen' = Tail(wgen)
                    /\ wpc' = wpc
                    /\ wfailedIn' = wfailedIn
    /\ UNCHANGED <<whost, wstandalone, wenv, wparams, wengine, wapp, wscene, wtree, wpass>>
    /\ UNCHANGED localVars
    /\ UNCHANGED lastPost
    /\ UNCHANGED storeVars

\* manager.publish(generator): task.publish() of the next task the
\* generator yields. An exception of the task leaves manager.publish,
\* publish_items and main: nothing catches it.
WorkerApply ==
    /\ wpc = "Publishing"
    /\ wpass = "publish"
    /\ wgen # <<>>
    /\ \E ok \in BOOLEAN :
        LET t == Head(wgen)
            what == TaskPublish(SettingsOf(wtree, t), whost)
        IN  /\ wprops' = IF what = "skip"
                         THEN [wprops EXCEPT ![t[1]] =
                                 [k \in {"publish_user"} |-> CurrentUser]]
                         ELSE wprops
            /\ wapplied' = IF what = "base" /\ ok
                           THEN Append(wapplied, t) ELSE wapplied
            /\ IF what = "raise" \/ (what = "base" /\ ~ok)
               THEN /\ WorkerFail("publish_items")
                    /\ wgen' = wgen
               ELSE /\ wgen' = Tail(wgen)
                    /\ wpc' = wpc
                    /\ wfailedIn' = wfailedIn
    /\ UNCHANGED <<whost, wstandalone, wenv, wparams, wengine, wapp, wscene, wtree, wpass,
                   wfinalized>>
    /\ UNCHANGED localVars
    /\ UNCHANGED lastPost
    /\ UNCHANGED storeVars

\* Variant of WorkerPostPublish in which the finalize pass is handed the
\* generator of the publish pass again, which is exhausted by then.
WorkerPostPublish_SameGenerator ==
    /\ wpc = "Publishing"
    /\ wpass = "publish"
    /\ wgen = <<>>
    /\ \E fault \in Faults :
        post_publish("worker", whost, wtree, wprops, TextOf(wscene),
                     main_configuration_id(wparams),
                     [project |-> PyNone, entity |-> PyNone,
                      task |-> main_context(wparams)],
                     fault)
    /\ IF lastPost'.result = "raise"
       THEN /\ WorkerFail("publish_items")
            /\ UNCHANGED <<wpass, wgen>>
       ELSE /\ wpass' = "finalize"
            /\ wgen' = wgen
            /\ wpc' = wpc
            /\ wfailedIn' = wfailedIn
    /\ UNCHANGED <<whost, wstandalone, wenv, wparams, wengine, wapp, wscene, wtree, wprops,
                   wapplied, wfinalized>>
    /\ UNCHANGED localVars

\* The end of manager.publish in the worker: the post_publish hook fires on
\* the loaded tree, then line 141 hands manager.finalize a second generator.
WorkerPostPublish ==
    /\ wpc = "Publishing"
    /\ wpass = "publish"
    /\ wgen = <<>>
    /\ \E fault \in Faults :
        post_publish("worker", whost, wtree, wprops, TextOf(wscene),
                     main_configuration_id(wparams),
                     [project |-> PyNone, entity |-> PyNone,
                      task |-> main_context(wparams)],
                     fault)
    /\ IF lastPost'.result = "raise"
       THEN /\ WorkerFail("publish_items")
            /\ UNCHANGED <<wpass, wgen>>
       ELSE /\ wpass' = "finalize"
            /\ wgen' = generator(wtree)
            /\ wpc' = wpc
            /\ wfailedIn' = wfailedIn
    /\ UNCHANGED <<whost, wstandalone, wenv, wparams, wengine, wapp, wscene, wtree, wprops,
                   wapplied, wfinalized>>
    /\ UNCHANGED localVars

\* manager.finalize(generator): task.finalize() of the next task.
WorkerFinalize ==
    /\ wpc = "Publishing"
    /\ wpass = "finalize"
    /\ wgen # <<>>
    /\ \E ok \in BOOLEAN :
        LET t == Head(wgen)
            what == TaskFinalize(SettingsOf(wtree, t), whost)
        IN  /\ wfinalized' = IF what = "base" /\ ok
                             THEN Append(wfinalized, t) ELSE wfinalized
            /\ IF what = "raise" \/ (what = "base" /\ ~ok)
               THEN /\ WorkerFail("publish_items")
                    /\ wgen' = wgen
               ELSE /\ wgen' = Tail(wgen)
                    /\ wpc' = wpc
                    /\ wfailedIn' = wfailedIn
    /\ UNCHANGED <<whost, wstandalone, wenv, wparams, wengine, wapp, wscene, wtree, wprops,
                   wpass, wapplied>>
    /\ UNCHANGED localVars
    /\ UNCHANGED lastPost
    /\ UNCHANGED storeVars

\* manager.finalize, publish_items and main return.
WorkerFinish ==
    /\ wpc = "Publishing"
    /\ wpass = "finalize"
    /\ wgen = <<>>
    /\ wpc' = "Done"
    /\ wpass' = "none"
    /\ UNCHANGED <<whost, wstandalone, wenv, wparams, wengine, wapp, wscene, wtree, wprops,
                   wgen, wapplied, wfinalized, wfailedIn>>
    /\ UNCHANGED localVars
    /\ UNCHANGED lastPost
    /\ UNCHANGED storeVars

Next ==
    \/ LocalPublish
    \/ LocalPostPublish
    \/ LocalFinalize
    \/ WorkerLaunch
    \/ WorkerGetParameters
    \/ WorkerBootstrapToolkit
    \/ WorkerLoadScene
    \/ WorkerLoadTree
    \/ WorkerApply
    \/ WorkerPostPublish
    \/ WorkerFinalize
    \/ WorkerFinish

Spec == Init /\ [][Next]_vars

\* ------------------------------------------------ further specifications
\* The tree of the hand-off example: item A with a farm task and a task of
\* another plugin, item B with a farm task; and the same with a local task.
ExampleTrees ==
    {<< <<FarmSetting(TRUE), NoSettings>>, <<FarmSetting(TRUE)>> >>,
     << <<FarmSetting(TRUE), FarmSetting(FALSE)>>, <<NoSettings>> >>}

\* Every session the record can describe: scene names with and without
\* non-ASCII characters, a managed or unmanaged pipeline configuration, a
\* site, project, entity or task context.
InitCodec ==
    /\ tree \in ExampleTrees
    /\ host \in Hosts
    /\ sessionName \in SessionNames
    /\ cfgId \in {PyInt(42), PyNone}
    /\ ctx \in RealContexts
    /\ InitRest

SpecCodec == InitCodec /\ [][Next]_vars

\* The artist toggles a "Submit to Farm" checkbox (get_ui_settings writes
\* the widget state into the task's setting).
Toggled(tr) ==
    {[tr EXCEPT ![t[1]][t[2]] = FarmSetting(~tr[t[1]][t[2]][SUBMIT_TO_FARM])] :
        t \in {u \in TaskIds(tr) : SUBMIT_TO_FARM \in DOMAIN SettingsOf(tr, u)}}

\* The artist publishes again from the same session, after opening or
\* saving another scene and changing checkboxes.
NewCycle ==
    /\ lpc \in {"done", "failed"}
    /\ wpc = "idle"
    /\ cycle < MaxCycles
    /\ cycle' = cycle + 1
    /\ sessionName' \in {s \in SessionNames : Len(s) <= 1}
    /\ tree' \in {tree} \cup Toggled(tree)
    /\ props' = [i \in 1..Len(tree) |-> NoProps]
    /\ lpc' = "publish"
    /\ lidx' = 1
    /\ localPub' = <<>>
    /\ localFin' = <<>>
    /\ lastPost' = NoPost
    /\ UNCHANGED <<host, cfgId, ctx>>
    /\ UNCHANGED storeVars
    /\ UNCHANGED workerVars

InitResubmit ==
    /\ tree \in ExampleTrees
    /\ host \in Hosts
    /\ sessionName \in {s \in SessionNames : Len(s) <= 1}
    /\ cfgId = PyInt(42)
    /\ ctx = [project |-> PyInt(1), entity |-> PyInt(2), task |-> PyInt(3)]
    /\ InitRest

NextResubmit ==
    \/ Next
    \/ NewCycle

SpecResubmit == InitResubmit /\ [][NextResubmit]_vars

\* ================================================================ claims
Range(seq) == {seq[k] : k \in 1..Len(seq)}
Count(seq, t) == Cardinality({k \in 1..Len(seq) : seq[k] = t})
FarmFlag(tr, t) ==
    SUBMIT_TO_FARM \in DOMAIN SettingsOf(tr, t) /\ SettingsOf(tr, t)[SUBMIT_TO_FARM]
FileExists(f) == disk[f] # <<>>
HasFarmTask(tr) == \E t \in TaskIds(tr) : FarmFlag(tr, t)

\* C1: after an interactive publish cycle (Maya with its UI) has completed
\* and the worker run it submitted has completed, the real publish and
\* finalize actions of every task of the tree have run exactly once: in the
\* worker and not locally for a task whose "Submit to Farm" is true, locally
\* and not in the worker for every other task. At no moment has a task been
\* published or finalized in both processes.
C1_EveryTaskExactlyOnce ==
    /\ \A t \in TaskIds(tree) :
        /\ Count(localPub, t) + Count(wapplied, t) <= 1
        /\ Count(localFin, t) + Count(wfinalized, t) <= 1
    /\ (/\ host = "maya_gui"
        /\ lpc = "done"
        /\ (submissions # <<>> => wpc = "Done"))
       => \A t \in TaskIds(tree) :
            IF FarmFlag(tree, t)
            THEN /\ Count(localPub, t) = 0 /\ Count(wapplied, t) = 1
                 /\ Count(localFin, t) = 0 /\ Count(wfinalized, t) = 1
            ELSE /\ Count(localPub, t) = 1 /\ Count(wapplied, t) = 0
                 /\ Count(localFin, t) = 1 /\ Count(wfinalized, t) = 0

\* A completed cycle and worker run over a tree with three tasks, some
\* published locally and some by the worker.
C1_Witness ==
    /\ host = "maya_gui"
    /\ lpc = "done"
    /\ wpc = "Done"
    /\ Len(TaskSeq(tree)) = 3
    /\ localPub # <<>>
    /\ wapplied # <<>>

\* C2: for every tree, the tasks the worker's generator selects and the
\* tasks whose real publish action runs in a local (non-batch Maya) process
\* partition the tasks of the tree: none is in both sets, none in neither,
\* and a task without the "Submit to Farm" setting is in the local set.
RemoteSet(tr) == Range(generator(tr))
LocalSet(tr) == {t \in TaskIds(tr) : TaskPublish(SettingsOf(tr, t), "maya_gui") = "base"}
CallTree == IF lastPost.proc = "worker" THEN wtree ELSE tree
CallHost == IF lastPost.proc = "worker" THEN whost ELSE host
NothingStored == ~folder /\ \A f \in FileNames : ~FileExists(f)

\* C3 as stated: post_publish on a tree without a farm task writes nothing
\* and returns normally.
C3_NoFarmTaskNoWritesNoError ==
    (lastPost.proc # "none" /\ ~HasFarmTask(CallTree))
    => /\ lastPost.written = <<>>
       /\ NothingStored
       /\ lastPost.result \in {"noop", "return"}

\* C3 (amended): post_publish on a tree without a farm task writes nothing
\* in any host (no folder, no tree file, no context record); under Maya it
\* returns normally, and under a host other than Maya it raises
\* NotImplementedError.
C3_NoFarmTaskNoWrites ==
    (lastPost.proc # "none" /\ ~HasFarmTask(CallTree))
    => /\ lastPost.written = <<>>
       /\ NothingStored
       /\ submissions = <<>>
       /\ IF IsMaya(CallHost)
          THEN lastPost.result \in {"noop", "return"}
          ELSE lastPost.result = "raise"

\* post_publish reported "no job" for a tree of FarmWrapper tasks that are
\* all local.
C3_Witness ==
    /\ lastPost = [proc |-> "local", result |-> "noop", written |-> <<>>]
    /\ Len(TaskSeq(tree)) >= 2
    /\ \A t \in TaskIds(tree) : SettingsOf(tree, t) = FarmSetting(FALSE)

\* Both artifacts exist and load: the tree file loads to loaded, and the
\* context record decodes.
ArtifactsLoadAs(loaded) ==
    /\ FileExists(TREE_FILE)
    /\ manager_load_tree(disk[TREE_FILE][1]) = loaded
    /\ FileExists(STATE_FILE)
    /\ disk[STATE_FILE][1] # <<>>
    /\ Len(get_parameters(disk[STATE_FILE][1][1], TREE_FILE)) = 6

\* C4 as stated: whenever post_publish returns from a call on a tree with a
\* farm task, it has written exactly the two artifacts and both load.
C4_FarmTaskTwoArtifactsAlways ==
    (/\ lastPost.proc # "none"
     /\ HasFarmTask(CallTree)
     /\ lastPost.result # "raise")
    => /\ lastPost.written = <<TREE_FILE, STATE_FILE>>
       /\ ArtifactsLoadAs(CallTree)

\* C4 (amended): when post_publish returns from a call on a tree with a farm
\* task on the local computer (Maya, not in batch mode), it has written
\* exactly two artifacts, the full tree and the context record, and both
\* exist and load; in batch mode (the worker's own call) it writes nothing.
C4_FarmTaskTwoArtifacts ==
    (/\ lastPost.proc # "none"
     /\ HasFarmTask(CallTree)
     /\ lastPost.result # "raise")
    => IF CallHost = "maya_gui"
       THEN /\ lastPost.result = "submitted"
            /\ lastPost.written = <<TREE_FILE, STATE_FILE>>
            /\ folder
            /\ ArtifactsLoadAs(CallTree)
            /\ Len(TaskSeq(manager_load_tree(disk[TREE_FILE][1]))) = Len(TaskSeq(tree))
       ELSE /\ lastPost.result = "return"
            /\ lastPost.written = <<>>

\* A submission of a tree that also holds a task that stays local.
C4_Witness ==
    /\ lastPost = [proc |-> "local", result |-> "submitted",
                   written |-> <<TREE_FILE, STATE_FILE>>]
    /\ \E t \in TaskIds(tree) : ~FarmFlag(tree, t)
    /\ FileExists(TREE_FILE)
    /\ FileExists(STATE_FILE)

PhaseRank(p) ==
    CASE p = "idle" -> 0
      [] p = "Start" -> 1
      [] p = "ParametersLoaded" -> 2
      [] p = "EngineStarted" -> 3
      [] p = "SceneLoaded" -> 4
      [] p = "Publishing" -> 5
      [] p = "Done" -> 6
      [] OTHER -> 7
C6_Step ==
    /\ (wpc = "Failed" => UNCHANGED workerVars)
    /\ (wpc' # wpc => (wpc' = "Failed" \/ PhaseRank(wpc') = PhaseRank(wpc) + 1))
    /\ ((wapplied' # wapplied \/ wfinalized' # wfinalized) => wpc = "Publishing")
C6_State ==
    /\ (PhaseRank(wpc) \in 2..6 => wparams # <<>>)
    /\ (PhaseRank(wpc) \in 3..6 =>
            /\ CredentialVars \subseteq wenv
            /\ wengine = main_engine_name(wparams))
    /\ (PhaseRank(wpc) \in 4..6 =>
            /\ IsMaya(whost)
            /\ wscene = main_session_path(wparams))
    /\ (PhaseRank(wpc) \in 0..4 =>
            wapp = PyNone /\ wtree = <<>> /\ wapplied = <<>> /\ wfinalized = <<>>)
    /\ (wfailedIn \in {"get_parameters", "bootstrap_toolkit", "load_scene"} =>
            wapp = PyNone /\ wtree = <<>> /\ wapplied = <<>> /\ wfinalized = <<>>)
    /\ (wfailedIn \in {"get_parameters", "bootstrap_toolkit"} => wscene = PyNone)
    /\ (wfailedIn = "get_parameters" => wengine = PyNone)
C6_PhasesInOrder == [][C6_Step]_vars /\ []C6_State

\* load_scene raised in a worker without Maya, after the engine started.
C6_Witness ==
    /\ wpc = "Failed"
    /\ wfailedIn = "load_scene"
    /\ whost = "other"
    /\ wengine # PyNone
    /\ wapplied = <<>>
    /\ wtree = <<>>

\* C7: in the worker, the publish pass and the finalize pass are two
\* traversals: a finalize runs only after the publish action of every farm
\* task of the tree has completed, and each pass takes the tasks in tree
\* order.
Before(a, b) == a[1] < b[1] \/ (a[1] = b[1] /\ a[2] < b[2])
InTreeOrder(seq) == \A k, l \in 1..Len(seq) : k < l => Before(seq[k], seq[l])
C7_PublishPassThenFinalizePass ==
    /\ InTreeOrder(wapplied)
    /\ InTreeOrder(wfinalized)
    /\ (wfinalized # <<>> \/ wpass = "finalize")
        => \A t \in TaskIds(wtree) : FarmFlag(wtree, t) => t \in Range(wapplied)

\* The finalize pass is under way over a selection of at least two tasks.
C7_Witness ==
    /\ wpass = "finalize"
    /\ Len(wapplied) >= 2
    /\ Len(wfinalized) = 1
    /\ wgen # <<>>

\* C8 as stated: an exception of one task's publish does not end the
\* worker's publish pass while later selected tasks are still waiting.
C8_ApplyFailureDoesNotAbort ==
    (wpc = "Failed" /\ wfailedIn = "publish_items" /\ wpass = "publish" /\ wgen # <<>>)
    => Tail(wgen) = <<>>

\* C9 as stated: every context record on durable storage has its five
\* fields non-empty.
C9_StoredRecordIsComplete ==
    (FileExists(STATE_FILE) /\ disk[STATE_FILE][1] # <<>>)
    => LET r == safe_load(disk[STATE_FILE][1][1])
       IN  /\ Truthy(r.session_path)
           /\ Truthy(r.toolkit.pipeline_configuration_id)
           /\ r.toolkit.context # {}
           /\ Truthy(r.toolkit.engine_instance_name)
           /\ Truthy(r.toolkit.app_instance_name)

\* C10 as stated: the artifacts of every earlier submission are still on
\* durable storage, unchanged.
C10_EarlierArtifactsKept ==
    \A k \in 1..Len(submissions) :
        /\ disk[TREE_FILE] = <<submissions[k].tree>>
        /\ disk[STATE_FILE] = <<submissions[k].state>>

\* C11 as stated: when tree.save_file or yaml.safe_dump raises inside
\* _submit_to_farm (Maya with its UI, a tree with a farm task), neither
\* the tree artifact nor the context record is on durable storage after
\* the hook has raised.
C11_FailedSubmissionLeavesNothing ==
    (/\ lastPost.proc = "local"
     /\ lastPost.result = "raise"
     /\ submission_is_on_local_computer(host) = "True"
     /\ HasFarmTask(tree))
    => ~FileExists(TREE_FILE) /\ ~FileExists(STATE_FILE)

\* C12: from its launch to its end, no step of a worker run (batch-mode
\* Maya or an interpreter without Maya), the post_publish hook fired by its
\* own publish pass included, creates the submission folder, writes the
\* tree artifact or the context record, or records a new submission; the
\* hook called in the worker reports no file written.
C12_Step ==
    (wpc # "idle" \/ wpc' # "idle") => UNCHANGED storeVars
C12_State ==
    lastPost.proc = "worker" =>
        /\ lastPost.written = <<>>
        /\ lastPost.result = "return"
C12_WorkerWritesNothing == [][C12_Step]_vars /\ []C12_State

\* A worker run has completed over a submitted tree, its post_publish hook
\* has fired, and the artifacts of the one submission are on storage.
C12_Witness ==
    /\ wpc = "Done"
    /\ wapplied # <<>>
    /\ lastPost.proc = "worker"
    /\ Len(submissions) = 1
    /\ disk[TREE_FILE] = <<submissions[1].tree>>
    /\ disk[STATE_FILE] = <<submissions[1].state>>

\* C13: in a worker whose environment lacks SHOTGUN_HOST,
\* SHOTGUN_SCRIPT_NAME or SHOTGUN_SCRIPT_KEY, the run never gets past
\* bootstrap_toolkit: once the record has been decoded the run ends in
\* Failed inside bootstrap_toolkit, no engine is requested or started, no
\* scene is loaded, no tree is loaded and no task is published or
\* finalized.
C13_MissingCredentialFailsInBootstrap ==
    (wpc # "idle" /\ ~(CredentialVars \subseteq wenv)) =>
        /\ wpc \in {"Start", "ParametersLoaded", "Failed"}
        /\ (wpc = "Failed" =>
                wfailedIn = (IF wparams = <<>> THEN "get_parameters"
                             ELSE "bootstrap_toolkit"))
        /\ wengine = PyNone
        /\ wscene = PyNone
        /\ wtree = <<>>
        /\ wapplied = <<>>
        /\ wfinalized = <<>>

\* The record was decoded and bootstrap_toolkit raised for a missing
\* SHOTGUN_SCRIPT_KEY, in a worker that runs Maya.
C13_Witness ==
    /\ wpc = "Failed"
    /\ wfailedIn = "bootstrap_toolkit"
    /\ wenv = CredentialVars \ {"SHOTGUN_SCRIPT_KEY"}
    /\ whost = "maya_batch"
    /\ wparams # <<>>
    /\ wengine = PyNone

\* C14 as stated: under a host application other than Maya the publish
\* plugin never runs its base publish or finalize action locally and never
\* marks an item as submitted, and the post_publish hook, when called,
\* raises.
C14_UnsupportedHostAlwaysRaises ==
    ~IsMaya(host) =>
        /\ \A t \in Range(localPub) \cup Range(localFin) :
                SUBMIT_TO_FARM \notin DOMAIN SettingsOf(tree, t)
        /\ \A i \in 1..Len(tree) : props[i] = NoProps
        /\ (lastPost.proc = "local" => lastPost.result = "raise")

\* C15: in a worker run, the publish pass is handed generator(tree) and
\* the finalize pass, from a second generator over the same tree, is handed
\* the same tasks in the same order: while the finalize pass runs, the
\* tasks finalized followed by the tasks still to come are the tasks that
\* were published, and a completed run has finalized exactly the sequence
\* it published, which is the selection over the loaded tree.
C15_FinalizeSequenceIsApplySequence ==
    /\ (wpc = "Publishing" /\ wpass = "publish")
        => wapplied \o wgen = generator(wtree)
    /\ (wpc = "Publishing" /\ wpass = "finalize")
        => /\ wapplied = generator(wtree)
           /\ wfinalized \o wgen = wapplied
    /\ wpc = "Done"
        => /\ wapplied = generator(wtree)
           /\ wfinalized = wapplied

\* A completed worker run that published and finalized two tasks of a tree
\* that also holds a task it did not select.
C15_Witness ==
    /\ wpc = "Done"
    /\ Len(wapplied) = 2
    /\ wfinalized = wapplied
    /\ Len(TaskSeq(wtree)) = 3

\* C16: _has_render_submissions(tree) is true exactly when generator(tree)
\* yields at least one task, for the tree being published and for the tree
\* the worker loaded; hence every submitted tree artifact loads to a tree
\* from which the worker selects at least one task, and when post_publish
\* on the local computer ends without submitting a job, the tree has no
\* task the worker would select.
C16_GateAgreesWithFilter ==
    /\ has_render_submissions(tree) <=> (generator(tree) # <<>>)
    /\ has_render_submissions(wtree) <=> (generator(wtree) # <<>>)
    /\ \A k \in 1..Len(submissions) :
        generator(manager_load_tree(submissions[k].tree)) # <<>>
    /\ (lastPost.proc = "local" /\ lastPost.result = "noop")
        => generator(tree) = <<>>

\* A job was submitted for a tree whose first item holds no farm task, and
\* the worker published the task it selected from the second item.
C16_Witness ==
    /\ Len(submissions) = 1
    /\ Len(tree) = 2
    /\ ~has_render_submissions(<<tree[1]>>)
    /\ has_render_submissions(tree)
    /\ wpc = "Done"
    /\ wapplied # <<>>

\* C17: generator(tree) yields exactly the tasks whose "Submit to Farm" is
\* true, each once, by item order and within an item by task order, and the
\* worker publishes them in that order. For item A with t1 (true) and t2
\* (setting absent) and item B with t3 (true) the worker publishes and
\* finalizes exactly [t1, t3], and the submitting process exactly [t2].
ExampleTree == << <<FarmSetting(TRUE), NoSettings>>, <<FarmSetting(TRUE)>> >>
C17_Selects(tr, seq) ==
    /\ InTreeOrder(seq)
    /\ Range(seq) = {t \in TaskIds(tr) : FarmFlag(tr, t)}
    /\ \A t \in Range(seq) : Count(seq, t) = 1
C17_FilterKeepsTreeOrder ==
    /\ C17_Selects(tree, generator(tree))
    /\ C17_Selects(wtree, generator(wtree))
    /\ generator(ExampleTree) = << <<1, 1>>, <<2, 1>> >>
    /\ (wpc = "Publishing" /\ wpass = "publish")
        => wapplied \o wgen = generator(wtree)
    /\ (wtree = ExampleTree /\ wpc = "Done")
        => /\ wapplied = << <<1, 1>>, <<2, 1>> >>
           /\ wfinalized = << <<1, 1>>, <<2, 1>> >>
           /\ localPub = << <<1, 2>> >>
           /\ (lpc = "done" => localFin = << <<1, 2>> >>)

\* The worker has completed its run over the example tree.
C17_Witness ==
    /\ wtree = ExampleTree
    /\ wpc = "Done"
    /\ wapplied = << <<1, 1>>, <<2, 1>> >>
    /\ localPub = << <<1, 2>> >>
    /\ localFin = << <<1, 2>> >>

\* C18 as stated: the host application is initialized in the worker only
\* after get_parameters has decoded the record, and a run that ended in
\* get_parameters has left the host application untouched.
C18_HostUntouchedBeforeRecord ==
    /\ wstandalone => wparams # <<>>
    /\ wfailedIn = "get_parameters" => ~wstandalone

\* C19 as stated: the publish_user of every task the worker publishes is a
\* field of the context record, or is set again by the worker before the
\* task's publish action runs.
C19_RecordKeys(r) == DOMAIN r \cup DOMAIN r.toolkit
C19_UserInRecordOrRecomputed ==
    \A t \in Range(wapplied) :
        \/ /\ FileExists(STATE_FILE)
           /\ disk[STATE_FILE][1] # <<>>
           /\ "publish_user" \in C19_RecordKeys(disk[STATE_FILE][1][1])
        \/ wprops[t[1]] # manager_load_props(disk[TREE_FILE][1])[t[1]]

====
